---- MODULE Spec2Model ----
(***************************************************************************)
(* Trip lifecycle of the Mzansi backend: the accept, update-status and     *)
(* cancel handlers of the rides router (current and earlier version) and   *)
(* of the deliveries router, run against one stored trip document and the  *)
(* requester's loyalty record.                                             *)
(*                                                                         *)
(* Every handler is an async Express callback: it reads the document with  *)
(* findById, runs its checks on that in-memory copy, and writes it back    *)
(* with save().  Each await is a point where another request's database    *)
(* operation can be served, so a handler is modelled as one step per       *)
(* database round trip.  save() writes only the paths whose value differs  *)
(* from the value that was read (Mongoose dirty tracking); it carries no   *)
(* condition on the stored document.  An invocation therefore carries its  *)
(* modified paths (the patch) and the projection it will answer with.      *)
(*                                                                         *)
(* SpecRate adds the rate handler and the worker's average.  SpecFleet     *)
(* runs the handlers on two trips of the collection.  SpecLive is the      *)
(* real-time side: driver availability, the personal rooms of the          *)
(* socket.io server with their join timers, and the dispatch of a created  *)
(* trip to the rooms of the workers near its pickup location.  SpecNotify   *)
(* is the fan-out of events with emits that can throw.  SpecSafety adds    *)
(* the SOS and incident handlers of the security router.  SpecVerify is    *)
(* the account verification router: codes sent by email or SMS, their      *)
(* expiry, and the verified flags.  SpecLoyalty runs the redemption of a   *)
(* reward next to the completion of a ride.  SpecSession is the login      *)
(* side: the session token of login and logout and the protect middleware. *)
(* Money is in cents.                                                      *)
(***************************************************************************)
EXTENDS Integers, FiniteSets, Sequences, TLC

\* ---------------------------------------------------------------- bounds
MaxReqs == 2        \* handler invocations that can be in flight together
MaxClock == 2       \* distinct instants new Date() can return
MaxCalls == 3       \* requests served in one run of the concurrent system
MaxTrips == 1       \* trips created in one run of the dispatch system
MaxTimers == 1      \* resync timers pending together
MaxReports == 1     \* incident reports filed on one trip
MaxMinutes == 13    \* minutes the verification clock runs for
MaxSessions == 3    \* session tokens that can be drawn

\* ------------------------------------------------------------- constants
\* TIER_THRESHOLDS
SilverThreshold == 1000
GoldThreshold == 5000
PlatinumThreshold == 10000

\* const radius = 10; // 10km radius
radius == 10

\* expiry.setMinutes(expiry.getMinutes() + 10)
ExpiryMinutes == 10

\* ------------------------------------------------------------ input sets
Reqs == 1..MaxReqs
Workers == {"w1", "w2"}
Users == Workers \cup {"rider", "admin"}
Kinds == {"ride", "delivery"}
\* fares of stored trips, in cents
Fares == {2500, 102500}
Routes == {"rides", "ridesV1", "deliveries"}
NoWorker == "none"
Absent == "absent"

\* verify-email / verify-phone, and the codes: two that generateVerificationCode
\* returns, and one of five characters
Channels == {"email", "phone"}
Codes == {"111111", "222222"}
CodeArgs == Codes \cup {"12345"}

\* minutes the clock advances by between two steps
Minutes == {ExpiryMinutes \div 2, ExpiryMinutes \div 2 + 1}

\* body('reason').optional().isString(): left out, or some text
Reasons == {Absent, "changed plans"}

\* body('stars'): two values isInt({min: 1, max: 5}) lets through, one it rejects
StarArgs == {4, 5, 6}

\* stars carried by a worker's earlier completed and rated trips
Histories == {<< >>, <<5, 5>>}

\* live socket.io connections, one per worker's client
Sockets == {"s1", "s2"}

\* the worker whose client holds the connection
Owner(c) == IF c = "s1" THEN "w1" ELSE "w2"

\* pickup locations a requester sends, locations a driver reports
Origins == {"cbd", "equator"}
Spots == {"near", "edge", "far"}
NoPlace == "nowhere"

\* {latitude, longitude} of a location, in 1/100000 degree
Latitude(p) ==
    CASE p = "cbd" -> -2620410 [] p = "near" -> -2614670 [] p = "edge" -> -2611414
      [] p = "far" -> -2574790 [] p = "equator" -> 0
Longitude(p) ==
    CASE p = "cbd" -> 2804730 [] p = "near" -> 2804360 [] p = "edge" -> 2804730
      [] p = "far" -> 2822930 [] p = "equator" -> 2804730

\* R * c of the haversine formula with R = 6371 km, in metres
Haversine(p, q) ==
    CASE p = q -> 0
      [] {p, q} = {"cbd", "near"} -> 6393
      [] {p, q} = {"cbd", "edge"} -> 10003
      [] {p, q} = {"cbd", "far"} -> 53891
      [] {p, q} = {"cbd", "equator"} -> 2913763
      [] {p, q} = {"near", "edge"} -> 3639
      [] {p, q} = {"near", "far"} -> 48075
      [] {p, q} = {"near", "equator"} -> 2907380
      [] {p, q} = {"edge", "far"} -> 44606
      [] {p, q} = {"edge", "equator"} -> 2903760
      [] {p, q} = {"far", "equator"} -> 2863102

\* collection a router works on
RouteKind(route) == IF route = "deliveries" THEN "delivery" ELSE "ride"

\* Routers a request for the stored trip is sent to.  The two versions of the
\* rides router differ in accept only; their update-status and cancel
\* handlers are the same code, and "rides" stands for both there.
RoutesFor(op, kind) ==
    {x \in Routes : RouteKind(x) = kind /\ (x = "ridesV1" => op = "accept")}

\* values the body('status').isIn([...]) validator lets through
ValidStatusArgs(route) ==
    IF route = "deliveries"
    THEN {"accepted", "picked_up", "in_transit", "delivered", "cancelled"}
    ELSE {"accepted", "driver_arrived", "in_progress", "completed", "cancelled"}

\* status values a client may send: the valid ones, 'pending', and a status
\* of the other kind of trip
StatusArgs(route) ==
    ValidStatusArgs(route)
      \cup {"pending", IF route = "deliveries" THEN "in_progress" ELSE "in_transit"}

\* per-kind labels of the stage that stamps the start time and of terminal success
StartStatus(kind) == IF kind = "delivery" THEN "picked_up" ELSE "in_progress"
SuccessStatus(kind) == IF kind = "delivery" THEN "delivered" ELSE "completed"

\* a Date path holds 0 until it is assigned
IsSet(ts) == ts > 0

VARIABLES
    trip,      \* the stored Ride / Delivery document
    users,     \* stored User documents: role flags and loyalty sub-record
    reqs,      \* handler invocations between their read and their last write
    out,       \* the response being sent, if any
    winners,   \* workers whose accept call has been answered with success
    now,       \* value new Date() returns
    calls,     \* requests received so far
    past,      \* per worker, the stars of the other completed trips that carry a rating
    trips,     \* the trips collection, where more than one trip matters
    conns,     \* state of each socket.io connection
    rooms,     \* per worker, the connections in the worker's personal room
    timers,    \* setTimeout callbacks armed by 'join' and not yet run, oldest first
    inbox,     \* per connection, the new-request events received
    sent,      \* events emitted by the handler whose response is going out
    verification, \* the verification sub-document of the requester's account
    vreqs,     \* invocations of the verification handlers between their steps
    issued,    \* per channel, the code last sent to the user and when
    reward,    \* the stored Reward document
    rreqs,     \* invocations of the redeem handler between their steps
    currentSessionToken, \* the requester's stored session token
    tokens,    \* the JWTs issued to the requester, oldest first
    minted,    \* session tokens drawn from the random source so far
    areqs      \* invocations of the auth handlers and of protect between their steps

vars == <<trip, users, reqs, out, winners, now, calls, past, trips, conns, rooms, timers, inbox,
         sent, verification, vreqs, issued, reward, rreqs, currentSessionToken, tokens, minted,
         areqs>>

\* the login side
gate == <<currentSessionToken, tokens, minted, areqs>>

\* the rewards side
shop == <<reward, rreqs>>

\* the account verification side
account == <<verification, vreqs, issued>>

\* the real-time side and the trips collection
live == <<trips, conns, rooms, timers, inbox>>

\* ------------------------------------------------------------ documents
\* Ride (rider, driver, startedAt, completedAt) and Delivery (customer,
\* courier, pickedUpAt, deliveredAt) share this shape.
NewTrip(kind, fare) ==
    [kind |-> kind, requester |-> "rider", worker |-> NoWorker,
     status |-> "pending", fare |-> fare, finalFare |-> 0,
     startedAt |-> 0, completedAt |-> 0, cancelledAt |-> 0,
     cancellationReason |-> Absent, stars |-> 0, origin |-> "cbd",
     destination |-> "far", type |-> IF kind = "delivery" THEN "standard" ELSE "economy",
     sosActivated |-> "false", sosActivatedAt |-> 0, sosLocation |-> Absent,
     sosContactsNotified |-> {}, incidentReports |-> << >>]

\* A JavaScript number that is the quotient of two integers, kept as the
\* reduced fraction <<numerator, denominator>>.
RECURSIVE GCD(_, _)
GCD(a, b) == IF b = 0 THEN a ELSE GCD(b, a % b)
Quotient(n, d) == <<n \div GCD(n, d), d \div GCD(n, d)>>

RECURSIVE SumOf(_)
SumOf(seq) == IF seq = << >> THEN 0 ELSE Head(seq) + SumOf(Tail(seq))

\* totalStars / ratedRides.length, left alone when no trip is rated
AverageOf(stars, old) == IF Len(stars) > 0 THEN Quotient(SumOf(stars), Len(stars)) ELSE old

\* User.create({role, isDriver: role === 'driver', isCourier: role === 'courier'});
\* rewardsRedeemed is the number of entries of loyalty.rewardsRedeemed
NewUser(role) ==
    [role |-> role, isDriver |-> (role = "driver"), isCourier |-> (role = "courier"),
     points |-> 0, tier |-> "bronze", totalSpent |-> 0, averageRating |-> Quotient(0, 1),
     rewardsRedeemed |-> 0,
     isAvailable |-> FALSE, isVerified |-> FALSE, currentLocation |-> NoPlace]

\* marker of a path the handler has not modified
KeepOf(f) ==
    IF f \in {"fare", "finalFare", "startedAt", "completedAt", "cancelledAt", "stars",
              "sosActivatedAt"}
    THEN -1
    ELSE IF f = "sosContactsNotified" THEN {<<"keep", "keep", -1>>}
    ELSE IF f = "incidentReports" THEN <<[reportedBy |-> "keep", reportedAt |-> -1]>>
    ELSE "keep"

NoPatch == [f \in DOMAIN NewTrip("ride", 0) |-> KeepOf(f)]

\* modified paths of an in-memory document read as snap and now holding mem
Diff(snap, mem) == [f \in DOMAIN snap |-> IF mem[f] # snap[f] THEN mem[f] ELSE KeepOf(f)]

\* user.verification of an account that has verified nothing; a code or an
\* expiry that is not set is Absent / 0
Unverified ==
    [email |-> [verified |-> FALSE, code |-> Absent, expiry |-> 0],
     phone |-> [verified |-> FALSE, code |-> Absent, expiry |-> 0],
     verifiedAt |-> 0]

\* a verification handler that is not running
IdleCall == [pc |-> "idle", op |-> Absent, channel |-> Absent, code |-> Absent, at |-> 0]

\* no code has been sent
NotIssued == [code |-> Absent, at |-> 0]

Response(code, msg, status, worker) ==
    [code |-> code, msg |-> msg, status |-> status, worker |-> worker]

NoResponse ==
    [op |-> Absent, route |-> Absent, actor |-> Absent, arg |-> Absent,
     res |-> Response(0, Absent, Absent, Absent)]

\* res.json(ride): the response is the in-memory document
DocResponse(doc) == Response(200, Absent, doc.status, doc.worker)

IdleReq ==
    [pc |-> "idle", route |-> Absent, op |-> Absent, actor |-> Absent, arg |-> Absent,
     patch |-> NoPatch, award |-> 0, usnap |-> 0,
     res |-> Response(0, Absent, Absent, Absent)]

\* One pending trip of either kind, the workers registered with the role
\* that serves it and carrying the average of the trips h says they were
\* rated on, no request in flight.
Registered(k, h) ==
    [u \in Users |->
        IF u \in Workers
        THEN [NewUser(IF k = "ride" THEN "driver" ELSE "courier")
                 EXCEPT !.averageRating = AverageOf(h[u], @)]
        ELSE IF u = "admin" THEN NewUser("admin")
        ELSE NewUser("rider")]

\* new Reward({...}) with the defaults of the schema; maxUses 0 is a reward
\* whose maxUses is not set
NewReward ==
    [pointsCost |-> 0, maxUses |-> 0, usedCount |-> 0, isActive |-> TRUE, minTier |-> "bronze"]

\* a redeem handler that is not running
IdleRedeem == [pc |-> "idle", rewardId |-> Absent, points |-> 0, tier |-> Absent, usedCount |-> 0]

\* ---------------------------------------------------------------- sessions
\* The values of user.currentSessionToken: the field is absent until a
\* login writes it (the handlers' writes are taken as stored, like those of
\* isCourier), logout writes null, and a session token is 32 random bytes,
\* here the number of the draw: two draws never give the same token.
NoSession == 0
Cleared == -1

\* jwt.sign({id, sessionToken}); a payload without sessionToken when the
\* argument is undefined.  by tells which handler issued the token.
generateToken(sessionToken) ==
    [by |-> IF sessionToken = NoSession THEN "register" ELSE "login", sessionToken |-> sessionToken]

\* a draw that repeats the previous one
repeatSessionToken(n) == n

\* crypto.randomBytes(32): the draw that follows n draws
generateSessionToken(n) == n + 1

\* a token signed with another secret, and a request without Authorization
Forged == [by |-> "forged", sessionToken |-> NoSession]
NoToken == [by |-> "none", sessionToken |-> NoSession]

\* an auth request that is not running
IdleAuth == [pc |-> "idle", op |-> Absent, token |-> NoToken, seen |-> NoSession, code |-> 0,
             message |-> Absent]

\* the system with the requester holding points and rw the stored reward
Opened(h, points, rw) ==
    /\ \E k \in Kinds, f \in Fares :
          /\ trip = NewTrip(k, f)
          /\ users = [Registered(k, h) EXCEPT !["rider"].points = points]
    /\ reqs = [r \in Reqs |-> IdleReq]
    /\ out = NoResponse
    /\ winners = {}
    /\ now = 1
    /\ calls = 0
    /\ past = h
    /\ conns = [c \in Sockets |-> "open"]
    /\ rooms = [w \in Workers |-> {}]
    /\ timers = << >>
    /\ inbox = [c \in Sockets |-> 0]
    /\ sent = {}
    /\ verification = Unverified
    /\ vreqs = [r \in Reqs |-> IdleCall]
    /\ issued = [ch \in Channels |-> NotIssued]
    /\ reward = rw
    /\ rreqs = [r \in Reqs |-> IdleRedeem]
    /\ currentSessionToken = NoSession
    /\ tokens = <<generateToken(NoSession)>>
    /\ minted = 0
    /\ areqs = [r \in Reqs |-> IdleAuth]

Start(h) == Opened(h, 0, NewReward)

\* no worker has been rated yet
NoPast == [w \in Workers |-> << >>]

Init == Start(NoPast) /\ trips = << >>

\* ------------------------------------------------------------- handlers
\* Outcome of the synchronous part of a handler that follows its read:
\* either an immediate answer, or the in-memory document to be written.
Answer(res) == [pc |-> "done", res |-> res, mem |-> NewTrip("ride", 0), award |-> 0]
Write(pc, mem, award) == [pc |-> pc, res |-> DocResponse(mem), mem |-> mem, award |-> award]

\* middleware authorize('driver')
authorize(u) == u.role = "driver" \/ u.isDriver

\* Ride.findById / Delivery.findById finds the document in its own collection
Found(route, d) == d.kind = RouteKind(route)

\* PUT /api/rides/:id/accept, up to the write
RidesAccept(d, actor, u) ==
    IF ~authorize(u) THEN Answer(Response(403, "not authorized", Absent, Absent))
    ELSE IF ~Found("rides", d) THEN Answer(Response(404, "not found", Absent, Absent))
    ELSE IF d.worker # NoWorker /\ d.worker = actor THEN Answer(DocResponse(d))
    ELSE IF d.worker # NoWorker /\ d.worker # actor
         THEN Answer(Response(400, "already has a driver", d.status, d.worker))
    ELSE IF d.status # "pending"
         THEN Answer(Response(400, "not available", d.status, Absent))
    ELSE Write("save", [d EXCEPT !.worker = actor, !.status = "accepted"], 0)

\* PUT /api/rides/:id/accept of the earlier rides router
RidesV1Accept(d, actor, u) ==
    IF ~authorize(u) THEN Answer(Response(403, "not authorized", Absent, Absent))
    ELSE IF ~Found("ridesV1", d) THEN Answer(Response(404, "not found", Absent, Absent))
    ELSE IF d.status # "pending"
         THEN Answer(Response(400, "not available", Absent, Absent))
    ELSE IF d.worker # NoWorker
         THEN Answer(Response(400, "already has a driver", Absent, Absent))
    ELSE Write("save", [d EXCEPT !.worker = actor, !.status = "accepted"], 0)

\* PUT /api/deliveries/:id/accept
DeliveriesAccept(d, actor, u) ==
    IF ~u.isCourier THEN Answer(Response(403, "not authorized", Absent, Absent))
    ELSE IF ~Found("deliveries", d) THEN Answer(Response(404, "not found", Absent, Absent))
    ELSE IF d.worker # NoWorker /\ d.worker # actor
         THEN Answer(Response(400, "already has a courier", d.status, d.worker))
    ELSE IF d.status # "pending"
         THEN Answer(Response(400, "not available", d.status, Absent))
    ELSE Write("save", [d EXCEPT !.worker = actor, !.status = "accepted"], 0)

\* the three permission flags of update-status and cancel
isWorker(d, actor) == d.worker # NoWorker /\ d.worker = actor
isRequester(d, actor) == d.requester = actor
isAdmin(u) == u.role = "admin"
\* no permission check at all
PermittedAll(d, actor, u) == TRUE

Permitted(d, actor, u) == isWorker(d, actor) \/ isRequester(d, actor) \/ isAdmin(u)

\* "Update status and timestamps": the assignments made on the document
StampStatus(d, status, t) ==
    [d EXCEPT !.status = status,
              !.startedAt = IF status = StartStatus(d.kind) /\ ~IsSet(@) THEN t ELSE @,
              !.completedAt = IF status = SuccessStatus(d.kind) /\ ~IsSet(@) THEN t ELSE @,
              !.cancelledAt = IF status = "cancelled" /\ ~IsSet(@) THEN t ELSE @]

\* the branch that loads the requester to add loyalty points
AwardsPoints(d, status, actor) ==
    status = SuccessStatus(d.kind) /\ ~IsSet(d.completedAt) /\ isRequester(d, actor)

\* finalFare || fare
FareOf(d) == IF d.finalFare # 0 THEN d.finalFare ELSE d.fare

\* Math.floor((finalFare || fare) / 10) * 10, the fare being in cents
Points(d) == (FareOf(d) \div 1000) * 10

\* PUT /api/(rides|deliveries)/:id/update-status, up to the first write
\* update-status without its validator
UpdateStatusUnvalidated(route, d, actor, u, status, t) ==
    IF ~Found(route, d) THEN Answer(Response(404, "not found", Absent, Absent))
    ELSE IF ~Permitted(d, actor, u) THEN Answer(Response(403, "access denied", Absent, Absent))
    ELSE Write("save", StampStatus(d, status, t), 0)

UpdateStatus(route, d, actor, u, status, t) ==
    IF status \notin ValidStatusArgs(route)
    THEN Answer(Response(400, "invalid status", Absent, Absent))
    ELSE IF ~Found(route, d) THEN Answer(Response(404, "not found", Absent, Absent))
    ELSE IF ~Permitted(d, actor, u) THEN Answer(Response(403, "access denied", Absent, Absent))
    ELSE Write(IF AwardsPoints(d, status, actor) THEN "loadUser" ELSE "save",
               StampStatus(d, status, t),
               IF AwardsPoints(d, status, actor) THEN Points(d) ELSE 0)

\* req.body.reason || 'Cancelled by user'
ReasonOf(reason) == IF reason = Absent THEN "Cancelled by user" ELSE reason

\* the cancel handler without its guard on completed / delivered
CancelCompleted(route, d, actor, u, reason, t) ==
    IF ~Found(route, d) THEN Answer(Response(404, "not found", Absent, Absent))
    ELSE IF ~Permitted(d, actor, u) THEN Answer(Response(403, "access denied", Absent, Absent))
    ELSE Write("save", [d EXCEPT !.status = "cancelled", !.cancelledAt = t,
                                 !.cancellationReason = ReasonOf(reason)], 0)

\* PUT /api/(rides|deliveries)/:id/cancel, up to the write
Cancel(route, d, actor, u, reason, t) ==
    IF ~Found(route, d) THEN Answer(Response(404, "not found", Absent, Absent))
    ELSE IF ~Permitted(d, actor, u) THEN Answer(Response(403, "access denied", Absent, Absent))
    ELSE IF d.status = SuccessStatus(d.kind)
         THEN Answer(Response(400, "cannot cancel", Absent, Absent))
    ELSE Write("save", [d EXCEPT !.status = "cancelled", !.cancelledAt = t,
                                 !.cancellationReason = ReasonOf(reason)], 0)

\* the rate handler without its guard on an existing rating
RateAgain(route, d, actor, stars) ==
    IF stars \notin 1..5 THEN Answer(Response(400, "invalid stars", Absent, Absent))
    ELSE IF ~Found(route, d) THEN Answer(Response(404, "not found", Absent, Absent))
    ELSE IF ~isRequester(d, actor)
         THEN Answer(Response(403, "only the requester", Absent, Absent))
    ELSE IF d.status # SuccessStatus(d.kind)
         THEN Answer(Response(400, "not completed", Absent, Absent))
    ELSE Write("saveRating", [d EXCEPT !.stars = stars], 0)

\* the rate handler without its guard on the caller
RateByAnyone(route, d, actor, stars) ==
    IF stars \notin 1..5 THEN Answer(Response(400, "invalid stars", Absent, Absent))
    ELSE IF ~Found(route, d) THEN Answer(Response(404, "not found", Absent, Absent))
    ELSE IF d.status # SuccessStatus(d.kind)
         THEN Answer(Response(400, "not completed", Absent, Absent))
    ELSE IF d.stars # 0 THEN Answer(Response(400, "already rated", Absent, Absent))
    ELSE Write("saveRating", [d EXCEPT !.stars = stars], 0)

\* PUT /api/(rides|deliveries)/:id/rate, up to the write of the rating
Rate(route, d, actor, stars) ==
    IF stars \notin 1..5 THEN Answer(Response(400, "invalid stars", Absent, Absent))
    ELSE IF ~Found(route, d) THEN Answer(Response(404, "not found", Absent, Absent))
    ELSE IF ~isRequester(d, actor)
         THEN Answer(Response(403, "only the requester", Absent, Absent))
    ELSE IF d.status # SuccessStatus(d.kind)
         THEN Answer(Response(400, "not completed", Absent, Absent))
    ELSE IF d.stars # 0 THEN Answer(Response(400, "already rated", Absent, Absent))
    ELSE Write("saveRating", [d EXCEPT !.stars = stars], 0)

\* Ride.find({driver, status: 'completed', 'rating.rider.stars': {$exists: true,
\* $ne: null}}): the stars of the worker's completed trips that carry a rating
RatedStars(w, d) ==
    past[w] \o (IF d.worker = w /\ d.status = SuccessStatus(d.kind) /\ d.stars # 0
                THEN <<d.stars>> ELSE << >>)

\* user.emergencyContacts and user.trustedContacts as each user has set them:
\* the rider has changed the emergency number, everybody else has the
\* schema defaults; <<name, phone, canTrackTrips>> for a trusted contact
EmergencyNumber(u) == IF u = "rider" THEN "082-911" ELSE "112"
PoliceNumber(u) == "10111"
TrustedContacts(u) ==
    IF u = "rider" THEN {<<"sister", "082-001", TRUE>>, <<"colleague", "082-002", FALSE>>}
    ELSE IF u \in Workers THEN {<<"partner", "083-001", TRUE>>}
    ELSE {}

\* contactsToNotify of the SOS handler for the user it loads
contactsToNotify(u) ==
    {<<"Emergency Services", EmergencyNumber(u)>>, <<"Police", PoliceNumber(u)>>}
       \cup {<<tc[1], tc[2]>> : tc \in {x \in TrustedContacts(u) : x[3]}}

\* locations an SOS request carries
SosLocations == {Absent, "near"}

\* an SOS handler that also ends the trip
ActivateSosEndsTrip(d, actor, location, t) ==
    IF ~Found("rides", d) THEN Answer(Response(404, "not found", Absent, Absent))
    ELSE IF ~isRequester(d, actor) /\ ~isWorker(d, actor)
         THEN Answer(Response(403, "not authorized", Absent, Absent))
    ELSE Write("save",
               [d EXCEPT !.status = "cancelled",
                         !.sosActivated = "true",
                         !.sosActivatedAt = t,
                         !.sosLocation = IF location = Absent THEN @ ELSE location,
                         !.sosContactsNotified =
                             {<<c[1], c[2], t>> : c \in contactsToNotify(actor)}],
               0)

\* POST /api/security/sos, up to the write
ActivateSos(d, actor, location, t) ==
    IF ~Found("rides", d) THEN Answer(Response(404, "not found", Absent, Absent))
    ELSE IF ~isRequester(d, actor) /\ ~isWorker(d, actor)
         THEN Answer(Response(403, "not authorized", Absent, Absent))
    ELSE Write("save",
               [d EXCEPT !.sosActivated = "true",
                         !.sosActivatedAt = t,
                         !.sosLocation = IF location = Absent THEN @ ELSE location,
                         !.sosContactsNotified =
                             {<<c[1], c[2], t>> : c \in contactsToNotify(actor)}],
               0)

\* POST /api/security/incident, up to the write
ReportIncident(d, actor, t) ==
    IF ~Found("rides", d) THEN Answer(Response(404, "not found", Absent, Absent))
    ELSE [Write("save",
                [d EXCEPT !.incidentReports =
                             Append(@, [reportedBy |-> actor, reportedAt |-> t])],
                0)
             EXCEPT !.res = Response(201, Absent, d.status, d.worker)]

\* the thresholds are in rands, the spend in cents
calculateTier(totalSpent) ==
    IF totalSpent >= 100 * PlatinumThreshold THEN "platinum"
    ELSE IF totalSpent >= 100 * GoldThreshold THEN "gold"
    ELSE IF totalSpent >= 100 * SilverThreshold THEN "silver"
    ELSE "bronze"

\* doc.save(): $set of the modified paths, whatever the stored document holds
SaveDoc(stored, patch) ==
    [f \in DOMAIN stored |-> IF patch[f] # KeepOf(f) THEN patch[f] ELSE stored[f]]

\* connections a broadcast reaches
Connected == {c \in Sockets : conns[c] = "open"}

\* The io.to(room).emit / io.emit calls a handler makes after its save, in
\* order, as <<event, target>>: the trip's room, the admin room, or "all"
\* for io.emit.  Rides and deliveries name the same events differently.
Emits(op) ==
    IF op = "accept"
    THEN << <<"accepted", "trip">>, <<"status-update", "trip">>, <<"updated", "admin">>,
            <<"unavailable", "all">> >>
    ELSE IF op \in {"updateStatus", "cancel"}
    THEN << <<"status-update", "trip">>, <<"updated", "admin">> >>
    ELSE IF op = "sos"
    THEN << <<"sos-activated", "trip">>, <<"sos-alert", "admin">> >>
    ELSE IF op = "incident"
    THEN << <<"new-incident", "admin">> >>
    ELSE << >>

\* io.emit taken for an emit to the workers' personal rooms
DeliveredToRooms(es) ==
    UNION {IF es[k][2] = "all"
           THEN {<<es[k][1], c>> : c \in {c \in Connected : \E w \in Workers : c \in rooms[w]}}
           ELSE {es[k]} :
              k \in DOMAIN es}

\* what the calls of es put on the wire: io.emit reaches every open connection
Delivered(es) ==
    UNION {IF es[k][2] = "all" THEN {<<es[k][1], c>> : c \in Connected} ELSE {es[k]} :
              k \in DOMAIN es}

\* ---------------------------------------------------------------- actions
\* a new request takes the lowest free slot; a response being sent goes out first
Free(r) ==
    /\ out = NoResponse
    /\ reqs[r].pc = "idle"
    /\ \A q \in Reqs : q < r => reqs[q].pc # "idle"

Sent(op, route, actor, arg, res) ==
    [op |-> op, route |-> route, actor |-> actor, arg |-> arg, res |-> res]

\* the read of a handler and the synchronous code after it
Begin(r, op, route, actor, arg, o) ==
    IF o.pc = "done"
    THEN /\ out' = Sent(op, route, actor, arg, o.res)
         /\ winners' = IF op = "accept" /\ o.res.code = 200
                       THEN winners \cup {actor} ELSE winners
         /\ UNCHANGED reqs
    ELSE /\ reqs' = [reqs EXCEPT ![r] =
                        [pc |-> o.pc, route |-> route, op |-> op, actor |-> actor,
                         arg |-> arg, patch |-> Diff(trip, o.mem), award |-> o.award, usnap |-> 0,
                         res |-> o.res]]
         /\ UNCHANGED <<out, winners>>

AcceptTrip(r) ==
    /\ Free(r)
    /\ \E route \in RoutesFor("accept", trip.kind), actor \in Users :
          Begin(r, "accept", route, actor, "accepted",
                IF route = "rides" THEN RidesAccept(trip, actor, users[actor])
                ELSE IF route = "ridesV1" THEN RidesV1Accept(trip, actor, users[actor])
                ELSE DeliveriesAccept(trip, actor, users[actor]))
    /\ UNCHANGED <<trip, users, now, past, shop, gate, account, live, sent>>

UpdateTripStatus(r) ==
    /\ Free(r)
    /\ \E route \in RoutesFor("updateStatus", trip.kind), actor \in Users :
          \E status \in StatusArgs(route) :
             Begin(r, "updateStatus", route, actor, status,
                   UpdateStatus(route, trip, actor, users[actor], status, now))
    /\ UNCHANGED <<trip, users, now, past, shop, gate, account, live, sent>>

CancelTrip(r) ==
    /\ Free(r)
    /\ \E route \in RoutesFor("cancel", trip.kind), actor \in Users, reason \in Reasons :
          Begin(r, "cancel", route, actor, "cancelled",
                Cancel(route, trip, actor, users[actor], reason, now))
    /\ UNCHANGED <<trip, users, now, past, shop, gate, account, live, sent>>

\* const rider = await User.findById(ride.rider._id)
LoadRequester(r) ==
    /\ out = NoResponse
    /\ reqs[r].pc = "loadUser"
    /\ reqs' = [reqs EXCEPT ![r].pc = "saveUser",
                            ![r].usnap = users[trip.requester].points]
    /\ UNCHANGED <<trip, users, out, winners, now, past, shop, gate, account, live, sent>>

\* rider.loyalty.points = (rider.loyalty.points || 0) + points; await rider.save()
SaveRequester(r) ==
    /\ out = NoResponse
    /\ reqs[r].pc = "saveUser"
    /\ users' = [users EXCEPT ![trip.requester].points = reqs[r].usnap + reqs[r].award]
    /\ reqs' = [reqs EXCEPT ![r].pc = "save"]
    /\ UNCHANGED <<trip, out, winners, now, past, shop, gate, account, live, sent>>

\* await ride.save(); res.json(ride)
SaveTrip(r) ==
    /\ out = NoResponse
    /\ reqs[r].pc = "save"
    /\ trip' = SaveDoc(trip, reqs[r].patch)
    /\ out' = Sent(reqs[r].op, reqs[r].route, reqs[r].actor, reqs[r].arg, reqs[r].res)
    /\ winners' = IF reqs[r].op = "accept" THEN winners \cup {reqs[r].actor} ELSE winners
    /\ reqs' = [reqs EXCEPT ![r] = IdleReq]
    /\ sent' = Delivered(Emits(reqs[r].op))
    /\ UNCHANGED <<users, now, past, shop, gate, account, live>>

RateTrip(r) ==
    /\ Free(r)
    /\ \E route \in RoutesFor("rate", trip.kind), actor \in Users, stars \in StarArgs :
          Begin(r, "rate", route, actor, "stars", Rate(route, trip, actor, stars))
    /\ UNCHANGED <<trip, users, now, past, shop, gate, account, live, sent>>

\* await ride.save(); if (ride.driver) {...} else res.json(ride)
SaveRating(r) ==
    /\ out = NoResponse
    /\ reqs[r].pc = "saveRating"
    /\ trip' = SaveDoc(trip, reqs[r].patch)
    /\ IF reqs[r].res.worker = NoWorker
       THEN /\ out' = Sent(reqs[r].op, reqs[r].route, reqs[r].actor, reqs[r].arg, reqs[r].res)
            /\ reqs' = [reqs EXCEPT ![r] = IdleReq]
       ELSE /\ reqs' = [reqs EXCEPT ![r].pc = "average"]
            /\ UNCHANGED out
    /\ UNCHANGED <<users, winners, now, past, shop, gate, account, live, sent>>

\* driver = await User.findById(ride.driver._id); ratedRides = await Ride.find(...);
\* driver.driverInfo.averageRating = totalStars / ratedRides.length;
\* await driver.save(); res.json(ride)
UpdateAverage(r) ==
    /\ out = NoResponse
    /\ reqs[r].pc = "average"
    /\ users' = [users EXCEPT ![reqs[r].res.worker].averageRating =
                                  AverageOf(RatedStars(reqs[r].res.worker, trip), @)]
    /\ out' = Sent(reqs[r].op, reqs[r].route, reqs[r].actor, reqs[r].arg, reqs[r].res)
    /\ reqs' = [reqs EXCEPT ![r] = IdleReq]
    /\ UNCHANGED <<trip, winners, now, past, shop, gate, account, live, sent>>

SosTrip(r) ==
    /\ Free(r)
    /\ \E actor \in Users, location \in SosLocations :
          Begin(r, "sos", "security", actor, location,
                ActivateSos(trip, actor, location, now))
    /\ UNCHANGED <<trip, users, now, past, shop, gate, account, live, sent>>

IncidentTrip(r) ==
    /\ Free(r)
    /\ Len(trip.incidentReports) < MaxReports
    /\ \E actor \in Users :
          Begin(r, "incident", "security", actor, "safety",
                ReportIncident(trip, actor, now))
    /\ UNCHANGED <<trip, users, now, past, shop, gate, account, live, sent>>

\* the response has left the server
Respond ==
    /\ out # NoResponse
    /\ out' = NoResponse
    /\ sent' = {}
    /\ UNCHANGED <<trip, users, reqs, winners, now, past, shop, gate, account, live>>

\* time passes between two readings of the clock
Tick ==
    /\ out = NoResponse
    /\ now < MaxClock
    /\ now' = now + 1
    /\ UNCHANGED <<trip, users, reqs, out, winners, past, shop, gate, account, live, sent>>

\* ------------------------------------------- several trips, whole handlers
\* res.status(500).json({message: 'Server error'}) of a handler's catch
ServerError == Response(500, "server error", Absent, Absent)

\* A handler run from its read to its response with no other request in
\* between, on the i-th trip of the collection.  After the save the first n
\* emit calls return; if there is a further one it throws, and the catch
\* around the whole handler answers.
Handle(i, op, route, actor, arg, o) ==
    \E n \in 0..Len(Emits(op)) :
       /\ o.pc = "done" => n = Len(Emits(op))
       /\ trips' = IF o.pc = "done" THEN trips ELSE [trips EXCEPT ![i] = o.mem]
       /\ users' = IF o.pc = "loadUser"
                   THEN [users EXCEPT ![trips[i].requester].points = @ + o.award]
                   ELSE users
       /\ sent' = IF o.pc = "done" THEN {} ELSE Delivered(SubSeq(Emits(op), 1, n))
       /\ out' = Sent(op, route, actor, arg,
                      IF n < Len(Emits(op)) THEN ServerError ELSE o.res)
       /\ UNCHANGED <<trip, reqs, winners, now, past, shop, gate, account, conns, rooms, timers, inbox>>

AcceptOf(i) ==
    /\ out = NoResponse
    /\ \E route \in RoutesFor("accept", trips[i].kind), actor \in Users :
          Handle(i, "accept", route, actor, "accepted",
                 IF route = "rides" THEN RidesAccept(trips[i], actor, users[actor])
                 ELSE IF route = "ridesV1" THEN RidesV1Accept(trips[i], actor, users[actor])
                 ELSE DeliveriesAccept(trips[i], actor, users[actor]))

UpdateStatusOf(i) ==
    /\ out = NoResponse
    /\ \E route \in RoutesFor("updateStatus", trips[i].kind), actor \in Users :
          \E status \in StatusArgs(route) :
             Handle(i, "updateStatus", route, actor, status,
                    UpdateStatus(route, trips[i], actor, users[actor], status, now))

CancelOf(i) ==
    /\ out = NoResponse
    /\ \E route \in RoutesFor("cancel", trips[i].kind), actor \in Users, reason \in Reasons :
          Handle(i, "cancel", route, actor, "cancelled",
                 Cancel(route, trips[i], actor, users[actor], reason, now))

\* ------------------------------------------------- dispatch and presence
\* calculateDistance(location1, location2), in 1/100 km: 0 when a location or
\* one of its coordinates is falsy, else the distance rounded to 2 decimals
calculateDistance(p, q) ==
    IF \/ p = NoPlace \/ q = NoPlace
       \/ Latitude(p) = 0 \/ Longitude(p) = 0 \/ Latitude(q) = 0 \/ Longitude(q) = 0
    THEN 0
    ELSE (Haversine(p, q) + 5) \div 10

\* distance <= radius, as each router computes the distance
WithinRadius(route, origin, loc) ==
    IF route = "rides" THEN calculateDistance(origin, loc) <= radius * 100
    ELSE Haversine(origin, loc) <= radius * 1000

\* User.find({isDriver | isCourier: true, '...isAvailable': true,
\* '...currentLocation': {$exists: true}})
Available(route) ==
    {w \in Workers :
        /\ IF route = "deliveries" THEN users[w].isCourier ELSE users[w].isDriver
        /\ users[w].isAvailable
        /\ users[w].currentLocation # NoPlace}

\* workers whose room the new-request event is emitted to
Notified(route, d) ==
    {w \in Available(route) :
        /\ WithinRadius(route, d.origin, users[w].currentLocation)
        /\ (route # "ridesV1" => rooms[w] # {})}

\* io.to(room).emit(...) for the room of each worker of ws
Emit(ws) == [c \in Sockets |-> inbox[c] + Cardinality({w \in ws : c \in rooms[w]})]

\* ------------------------------------------------------------ fares
\* Amounts are in cents, distances in metres.
Destinations == {"near", "far"}
RideTypes == {"economy", "comfort", "premium", "xl"}
DeliveryTypes == {"standard", "express", "scheduled"}

\* body('rideType') / body('deliveryType') of the requests that are made
TypeArgs(route) ==
    IF route = "deliveries" THEN {"standard", "express"} ELSE {"economy", "premium"}

\* the result of arithmetic on a value that is not a number
NaN == -1

\* a JavaScript number
Num(n) == [type |-> "number", value |-> n]

\* baseFares and ratePerKm of calculateFare, in rands
baseFares(rideType) ==
    CASE rideType = "comfort" -> 40 [] rideType = "premium" -> 60
      [] rideType = "xl" -> 80 [] OTHER -> 25
ratePerKm(rideType) ==
    CASE rideType = "comfort" -> 12 [] rideType = "premium" -> 18
      [] rideType = "xl" -> 25 [] OTHER -> 8

\* calculateFare of the rides routers:
\* Math.round((baseFare + distance * ratePerKm) * 100) / 100
calculateFare(pickupLocation, dropoffLocation, rideType) ==
    Num((1000 * baseFares(rideType)
           + Haversine(pickupLocation, dropoffLocation) * ratePerKm(rideType) + 5) \div 10)

\* baseFares and ratePerKm of calculateDeliveryFare, in rands
deliveryBaseFares(deliveryType) ==
    CASE deliveryType = "express" -> 50 [] deliveryType = "scheduled" -> 35 [] OTHER -> 30
deliveryRatePerKm(deliveryType) ==
    CASE deliveryType = "express" -> 10 [] deliveryType = "scheduled" -> 7 [] OTHER -> 6

\* calculateDeliveryFare(distanceKm, deliveryType, itemWeight, options) with
\* options that name no surcharge, insurance or discount: the breakdown object,
\* of which totalFare is kept.  3% service fee and 15% tax on the subtotal.
calculateDeliveryFare(distanceKm, deliveryType, itemWeight) ==
    LET weightSurcharge == IF itemWeight > 5 THEN (itemWeight - 5) * 200 ELSE 0
        subtotal == IF distanceKm = NaN THEN NaN
                    ELSE 1000 * deliveryBaseFares(deliveryType) + 10 * weightSurcharge
                           + distanceKm * deliveryRatePerKm(deliveryType)
        totalFare == IF subtotal = NaN THEN NaN ELSE (subtotal * 118 + 500) \div 1000
    IN [type |-> "object", value |-> totalFare]

\* const fare = ... of the create handlers.  The deliveries router hands
\* calculateDeliveryFare the two locations, the delivery type and the weight:
\* the pickup location stands where the distance is expected (an object
\* times a rate is not a number), the delivery location where the type is
\* (no such key: standard), the type where the weight is ('standard' > 5 is
\* false), and the whole object that comes back is the fare.
Fare(route, pickupLocation, dropoffLocation, type) ==
    IF route = "deliveries"
    THEN calculateDeliveryFare(NaN, "[object Object]", 0)
    ELSE calculateFare(pickupLocation, dropoffLocation, type)

\* the cast of a Number path (fare: {type: Number}): a number that is not
\* NaN passes, anything else makes save() reject
castNumber(v) == v.type = "number" /\ v.value # NaN

\* POST /api/rides, POST /api/deliveries.  A fare that does not cast makes
\* save() reject: nothing is stored and the handler's catch answers.  After
\* the save, the emit to the admin room comes
\* first and is covered by the handler's catch only; the worker lookup and
\* the emits to the workers' rooms run in a try of their own, which ends
\* the dispatch at the first throw: any part of the rooms has been served
\* and the error is logged.
CreateTrip ==
    /\ out = NoResponse
    /\ Len(trips) < MaxTrips
    /\ \E route \in Routes : \E origin \in Origins, destination \in Destinations,
                                type \in TypeArgs(route) :
          LET f == Fare(route, origin, destination, type)
              d == [NewTrip(RouteKind(route), f.value) EXCEPT
                      !.origin = origin, !.destination = destination, !.type = type] IN
          IF ~castNumber(f)
          THEN /\ out' = Sent("create", route, "rider", origin, ServerError)
               /\ sent' = {}
               /\ UNCHANGED <<trips, inbox>>
          ELSE
          /\ trips' = Append(trips, d)
          /\ \/ \E got \in SUBSET Notified(route, d) :
                   /\ inbox' = Emit(got)
                   /\ sent' = {<<"new-trip", "admin">>}
                                 \cup {<<"new-request", w>> : w \in got}
                                 \cup (IF got = Notified(route, d) THEN {}
                                       ELSE {<<"error", "log">>})
                   /\ out' = Sent("create", route, "rider", origin,
                                  Response(201, Absent, d.status, d.worker))
             \/ /\ inbox' = inbox
                /\ sent' = {}
                /\ out' = Sent("create", route, "rider", origin, ServerError)
    /\ UNCHANGED <<trip, users, reqs, winners, now, past, shop, gate, account, conns, rooms, timers>>

\* PUT /api/users/driver-availability
SetAvailability ==
    /\ out = NoResponse
    /\ \E w \in Workers, isAvailable \in BOOLEAN, currentLocation \in Spots \cup {Absent} :
          IF ~authorize(users[w])
          THEN /\ out' = Sent("availability", "users", w, isAvailable,
                              Response(403, "not authorized", Absent, Absent))
               /\ UNCHANGED users
          ELSE /\ users' = [users EXCEPT
                              ![w].isAvailable = isAvailable,
                              ![w].isVerified = @ \/ isAvailable,
                              ![w].currentLocation =
                                  IF currentLocation = Absent THEN @ ELSE currentLocation]
               /\ out' = Sent("availability", "users", w, isAvailable,
                              Response(200, Absent, Absent, Absent))
    /\ UNCHANGED <<trip, reqs, winners, now, past, shop, gate, account, trips, conns, rooms, timers, inbox, sent>>

\* socket.on('join', room) with room the personal room of worker w:
\* socket.join(room); setTimeout(resync, delay)
Join(c, w) ==
    /\ conns[c] = "open"
    /\ Len(timers) < MaxTimers
    /\ rooms' = [rooms EXCEPT ![w] = @ \cup {c}]
    /\ timers' = Append(timers, [sock |-> c, room |-> w, again |-> c \in rooms[w],
                                 seen |-> Len(trips)])
    /\ UNCHANGED <<trip, users, reqs, out, winners, now, past, shop, gate, account, trips, conns, inbox, sent>>

\* the connection closes and leaves its rooms
Disconnect(c) ==
    /\ conns[c] = "open"
    /\ conns' = [conns EXCEPT ![c] = "closed"]
    /\ rooms' = [w \in Workers |-> rooms[w] \ {c}]
    /\ UNCHANGED <<trip, users, reqs, out, winners, now, past, shop, gate, account, trips, timers, inbox, sent>>

\* value of a path the stored document does not have
Undefined == "undefined"

\* find({status: 'pending', driver | courier: {$exists: false}}) with null
\* taken for a missing path
PendingNull(kind) ==
    {i \in DOMAIN trips :
        trips[i].kind = kind /\ trips[i].status = "pending" /\ trips[i].worker = NoWorker}

\* Ride.find | Delivery.find({status: 'pending', driver | courier: {$exists: false}})
Pending(kind) ==
    {i \in DOMAIN trips :
        trips[i].kind = kind /\ trips[i].status = "pending" /\ trips[i].worker = Undefined}

\* pending trips the resync of worker w's room sends: the user is available
\* with a location, the pickup is within the radius
Resent(w) ==
    IF users[w].isAvailable /\ users[w].currentLocation # NoPlace
    THEN {i \in Pending(IF users[w].isCourier THEN "delivery" ELSE "ride") :
             Haversine(users[w].currentLocation, trips[i].origin) <= radius * 1000}
    ELSE {}

\* a callback that sends every trip created before the join, whatever the
\* membership, the worker and the trips have become since
ResyncReplays ==
    /\ timers # << >>
    /\ inbox' = [c \in Sockets |->
                    IF c = Head(timers).sock THEN inbox[c] + Head(timers).seen ELSE inbox[c]]
    /\ timers' = Tail(timers)
    /\ UNCHANGED <<trip, users, reqs, out, winners, now, past, shop, gate, account, trips, conns, rooms, sent>>

\* the callback of the oldest timer: drivers get io.to(room).emit, couriers
\* socket.emit, once per trip found
Resync ==
    /\ timers # << >>
    /\ LET t == Head(timers)
           n == Cardinality(Resent(t.room)) IN
       inbox' = [c \in Sockets |->
                    IF t.sock \notin rooms[t.room] THEN inbox[c]
                    ELSE IF users[t.room].isCourier
                         THEN (IF c = t.sock THEN inbox[c] + n ELSE inbox[c])
                         ELSE (IF c \in rooms[t.room] THEN inbox[c] + n ELSE inbox[c])]
    /\ timers' = Tail(timers)
    /\ UNCHANGED <<trip, users, reqs, out, winners, now, past, shop, gate, account, trips, conns, rooms, sent>>

\* ------------------------------------------------- account verification
\* body('code').isLength({min: 6, max: 6})
isLength(code) == code # "12345"

\* a check that lets every code through, whatever its age
ExpiredNever(t, expiry) == FALSE

\* new Date() > user.verification.<channel>VerificationCodeExpiry
Expired(t, expiry) == t > expiry

\* POST /api/verification/verify-(email|phone) from the read of the user to
\* the write: an answer, or res.code = 0 when the flag is to be saved
VerifyCode(v, code, t) ==
    IF v.verified THEN Response(200, "already verified", Absent, Absent)
    ELSE IF v.code = Absent THEN Response(400, "no code", Absent, Absent)
    ELSE IF Expired(t, v.expiry) THEN Response(400, "expired", Absent, Absent)
    ELSE IF v.code # code THEN Response(400, "invalid code", Absent, Absent)
    ELSE Response(0, Absent, Absent, Absent)

FreeCall(r) ==
    /\ out = NoResponse
    /\ vreqs[r].pc = "idle"
    /\ \A q \in Reqs : q < r => vreqs[q].pc # "idle"

\* POST /api/verification/send-(email|sms)-code is received
SendCall(r) ==
    /\ FreeCall(r)
    /\ \E ch \in Channels :
          vreqs' = [vreqs EXCEPT ![r] = [IdleCall EXCEPT !.pc = "load", !.op = "send",
                                                        !.channel = ch]]
    /\ UNCHANGED <<trip, users, reqs, out, winners, now, past, shop, gate, live, sent, verification, issued>>

\* POST /api/verification/verify-(email|phone) is received and validated
VerifyCall(r) ==
    /\ FreeCall(r)
    /\ \E ch \in Channels, code \in CodeArgs :
          IF ~isLength(code)
          THEN /\ out' = Sent("verify", ch, "rider", code,
                              Response(400, "validation", Absent, Absent))
               /\ UNCHANGED vreqs
          ELSE /\ vreqs' = [vreqs EXCEPT ![r] = [IdleCall EXCEPT !.pc = "load", !.op = "verify",
                                                             !.channel = ch, !.code = code]]
               /\ UNCHANGED out
    /\ UNCHANGED <<trip, users, reqs, winners, now, past, shop, gate, live, sent, verification, issued>>

\* User.findById(req.user.id) resolves and the code up to user.save() runs:
\* send answers an account that is verified already and otherwise draws the
\* code and computes the expiry; verify checks the code presented
LoadAccount(r) ==
    /\ out = NoResponse
    /\ vreqs[r].pc = "load"
    /\ LET c == vreqs[r]
           v == verification[c.channel]
           res == VerifyCode(v, c.code, now) IN
       IF c.op = "send"
       THEN IF v.verified
            THEN /\ out' = Sent("send", c.channel, "rider", Absent,
                                Response(400, "already verified", Absent, Absent))
                 /\ vreqs' = [vreqs EXCEPT ![r] = IdleCall]
            ELSE /\ \E code \in Codes :
                      vreqs' = [vreqs EXCEPT ![r] = [c EXCEPT !.pc = "save", !.code = code,
                                                              !.at = now + ExpiryMinutes]]
                 /\ UNCHANGED out
       ELSE IF res.code # 0
            THEN /\ out' = Sent("verify", c.channel, "rider", c.code, res)
                 /\ vreqs' = [vreqs EXCEPT ![r] = IdleCall]
            ELSE /\ vreqs' = [vreqs EXCEPT ![r] = [c EXCEPT !.pc = "save", !.at = now]]
                 /\ UNCHANGED out
    /\ UNCHANGED <<trip, users, reqs, winners, now, past, shop, gate, live, sent, verification, issued>>

\* user.save() resolves, writing the paths the handler has modified.  send
\* then hands the code to the mail or SMS service and answers 500 when that
\* fails in production; verify answers.
SaveAccount(r) ==
    /\ out = NoResponse
    /\ vreqs[r].pc = "save"
    /\ LET c == vreqs[r] IN
       IF c.op = "send"
       THEN /\ verification' = [verification EXCEPT ![c.channel].code = c.code,
                                                      ![c.channel].expiry = c.at]
            /\ issued' = [issued EXCEPT ![c.channel] = [code |-> c.code, at |-> now]]
            /\ \E code \in {200, 500} :
                  out' = Sent("send", c.channel, "rider", Absent,
                              Response(code, Absent, Absent, Absent))
       ELSE /\ verification' = [verification EXCEPT ![c.channel].verified = TRUE,
                                                      ![c.channel].code = Absent,
                                                      ![c.channel].expiry = 0,
                                                      !.verifiedAt = c.at]
            /\ issued' = issued
            /\ out' = Sent("verify", c.channel, "rider", c.code,
                           Response(200, "verified", Absent, Absent))
    /\ vreqs' = [vreqs EXCEPT ![r] = IdleCall]
    /\ UNCHANGED <<trip, users, reqs, winners, now, past, shop, gate, live, sent>>

\* minutes pass
Elapse ==
    /\ out = NoResponse
    /\ \E m \in Minutes :
          /\ now + m <= MaxMinutes
          /\ now' = now + m
    /\ UNCHANGED <<trip, users, reqs, out, winners, past, shop, gate, live, sent, account>>

\* ------------------------------------------------------- reward redemption
\* req.body.rewardId: left out, the stored reward, a reward that does not exist
RewardIds == {Absent, "r1", "gone"}

\* rewards of the catalogue: 20 points each, unlimited or for one use, one of
\* them withdrawn, one for silver members
Rewards ==
    {[NewReward EXCEPT !.pointsCost = 20, !.maxUses = m] : m \in {0, 1}}
      \cup {[NewReward EXCEPT !.pointsCost = 20, !.isActive = FALSE],
            [NewReward EXCEPT !.pointsCost = 20, !.minTier = "silver"]}

\* points the requester holds from earlier trips
InitialPoints == {0, 20, 40}

\* tierOrder.indexOf(tier)
tierOrder(tier) ==
    CASE tier = "bronze" -> 0 [] tier = "silver" -> 1 [] tier = "gold" -> 2
      [] tier = "platinum" -> 3 [] OTHER -> -1

\* the uses check: reward.maxUses && reward.usedCount >= reward.maxUses
UsedUp(rw) == rw.maxUses # 0 /\ rw.usedCount >= rw.maxUses

\* POST /api/loyalty/redeem, the checks made on the user and the reward read:
\* an answer, or res.code = 0 when the redemption is to be written
Redeem(rewardId, points, tier, rw) ==
    IF rewardId # "r1" THEN Response(404, "reward not found", Absent, Absent)
    ELSE IF ~rw.isActive THEN Response(400, "not active", Absent, Absent)
    ELSE IF UsedUp(rw) THEN Response(400, "maximum uses", Absent, Absent)
    ELSE IF points < rw.pointsCost THEN Response(400, "insufficient points", Absent, Absent)
    ELSE IF tierOrder(tier) < tierOrder(rw.minTier)
    THEN Response(400, "tier not met", Absent, Absent)
    ELSE Response(0, Absent, Absent, Absent)

FreeRedeem(r) ==
    /\ out = NoResponse
    /\ rreqs[r].pc = "idle"
    /\ \A q \in Reqs : q < r => rreqs[q].pc # "idle"

\* the requester's POST /api/loyalty/redeem is received
RedeemCall(r) ==
    /\ FreeRedeem(r)
    /\ \E rewardId \in RewardIds :
          IF rewardId = Absent
          THEN /\ out' = Sent("redeem", "loyalty", "rider", rewardId,
                              Response(400, "reward id required", Absent, Absent))
               /\ UNCHANGED rreqs
          ELSE /\ rreqs' = [rreqs EXCEPT ![r] = [IdleRedeem EXCEPT !.pc = "loadUser",
                                                                  !.rewardId = rewardId]]
               /\ UNCHANGED out
    /\ UNCHANGED <<trip, users, reqs, winners, now, past, gate, account, live, sent, reward>>

\* const user = await User.findById(req.user.id)
RedeemLoadUser(r) ==
    /\ out = NoResponse
    /\ rreqs[r].pc = "loadUser"
    /\ rreqs' = [rreqs EXCEPT ![r].pc = "loadReward",
                              ![r].points = users["rider"].points,
                              ![r].tier = users["rider"].tier]
    /\ UNCHANGED <<trip, users, reqs, out, winners, now, past, gate, account, live, sent, reward>>

\* const reward = await Reward.findById(rewardId), the checks, and the
\* changes made on the two documents in memory
RedeemLoadReward(r) ==
    /\ out = NoResponse
    /\ rreqs[r].pc = "loadReward"
    /\ LET c == rreqs[r]
           res == Redeem(c.rewardId, c.points, c.tier, reward) IN
       IF res.code # 0
       THEN /\ out' = Sent("redeem", "loyalty", "rider", c.rewardId, res)
            /\ rreqs' = [rreqs EXCEPT ![r] = IdleRedeem]
       ELSE /\ rreqs' = [rreqs EXCEPT ![r].pc = "saveReward",
                                     ![r].points = c.points - reward.pointsCost,
                                     ![r].usedCount = reward.usedCount + 1]
            /\ UNCHANGED out
    /\ UNCHANGED <<trip, users, reqs, winners, now, past, gate, account, live, sent, reward>>

\* await reward.save(): usedCount is written as the value computed in memory
RedeemSaveReward(r) ==
    /\ out = NoResponse
    /\ rreqs[r].pc = "saveReward"
    /\ reward' = [reward EXCEPT !.usedCount = rreqs[r].usedCount]
    /\ rreqs' = [rreqs EXCEPT ![r].pc = "saveUser"]
    /\ UNCHANGED <<trip, users, reqs, out, winners, now, past, gate, account, live, sent>>

\* await user.save(): loyalty.points is written as the value computed in
\* memory, the entry is pushed onto loyalty.rewardsRedeemed; res.json(...)
RedeemSaveUser(r) ==
    /\ out = NoResponse
    /\ rreqs[r].pc = "saveUser"
    /\ users' = [users EXCEPT !["rider"].points = rreqs[r].points,
                              !["rider"].rewardsRedeemed = @ + 1]
    /\ out' = Sent("redeem", "loyalty", "rider", rreqs[r].rewardId,
                   Response(200, "redeemed", Absent, Absent))
    /\ rreqs' = [rreqs EXCEPT ![r] = IdleRedeem]
    /\ UNCHANGED <<trip, reqs, winners, now, past, gate, account, live, sent, reward>>

\* a request is received / a request in flight moves on
Received == calls < MaxCalls /\ calls' = calls + 1
Served == calls' = calls

Next ==
    \/ \E r \in Reqs : AcceptTrip(r) /\ Received
    \/ \E r \in Reqs : UpdateTripStatus(r) /\ Received
    \/ \E r \in Reqs : CancelTrip(r) /\ Received
    \/ \E r \in Reqs : LoadRequester(r) /\ Served
    \/ \E r \in Reqs : SaveRequester(r) /\ Served
    \/ \E r \in Reqs : SaveTrip(r) /\ Served
    \/ Respond /\ Served
    \/ Tick /\ Served

Spec == Init /\ [][Next]_vars

\* The same handlers when no two invocations overlap: a request is received
\* only after the previous one has been answered; any number of requests.
Quiet == \A r \in Reqs : reqs[r].pc = "idle"

SeqNext ==
    \/ \E r \in Reqs : AcceptTrip(r) /\ Quiet /\ Served
    \/ \E r \in Reqs : UpdateTripStatus(r) /\ Quiet /\ Served
    \/ \E r \in Reqs : CancelTrip(r) /\ Quiet /\ Served
    \/ \E r \in Reqs : LoadRequester(r) /\ Served
    \/ \E r \in Reqs : SaveRequester(r) /\ Served
    \/ \E r \in Reqs : SaveTrip(r) /\ Served
    \/ Respond /\ Served
    \/ Tick /\ Served

SpecSeq == Init /\ [][SeqNext]_vars

\* The trip with its rating: the handlers above and the rate handler, one
\* request at a time, the workers starting with any of the Histories.  The
\* rate handler reads no clock; all requests fall within one clock reading.
InitRate == \E h \in Histories : Start([w \in Workers |-> h]) /\ trips = << >>

RateNext ==
    \/ \E r \in Reqs : AcceptTrip(r) /\ Quiet /\ Served
    \/ \E r \in Reqs : UpdateTripStatus(r) /\ Quiet /\ Served
    \/ \E r \in Reqs : CancelTrip(r) /\ Quiet /\ Served
    \/ \E r \in Reqs : RateTrip(r) /\ Quiet /\ Served
    \/ \E r \in Reqs : LoadRequester(r) /\ Served
    \/ \E r \in Reqs : SaveRequester(r) /\ Served
    \/ \E r \in Reqs : SaveTrip(r) /\ Served
    \/ \E r \in Reqs : SaveRating(r) /\ Served
    \/ \E r \in Reqs : UpdateAverage(r) /\ Served
    \/ Respond /\ Served

SpecRate == InitRate /\ [][RateNext]_vars

\* Two pending trips of the same requester and the handlers that change the
\* assignment and the status of a trip, each run to its response.
InitFleet == Start(NoPast) /\ trips = <<trip, trip>>

FleetNext ==
    \/ \E i \in DOMAIN trips : AcceptOf(i) /\ Received
    \/ \E i \in DOMAIN trips : UpdateStatusOf(i) /\ Received
    \/ \E i \in DOMAIN trips : CancelOf(i) /\ Received
    \/ Respond /\ Served

SpecFleet == InitFleet /\ [][FleetNext]_vars

\* The real-time side: workers report availability, connections join the
\* workers' rooms and close, trips are created and dispatched, accepted, and
\* the join timers run in the order they were armed.  The single trip
\* document of the other specifications plays no part here.
InitLive == Start(NoPast) /\ trips = << >> /\ \A f \in Fares : trip.fare <= f

LiveNext ==
    \/ SetAvailability /\ Received
    \/ CreateTrip /\ Received
    \/ \E i \in DOMAIN trips : AcceptOf(i) /\ Received
    \/ \E c \in Sockets : Join(c, Owner(c)) /\ Served
    \/ \E c \in Sockets : Disconnect(c) /\ Served
    \/ Resync /\ Served
    \/ Respond /\ Served

SpecLive == InitLive /\ [][LiveNext]_vars

\* The handlers that notify: drivers report availability, a trip is created
\* and dispatched, accepted, moved on and cancelled.
NotifyNext ==
    \/ SetAvailability /\ Received
    \/ CreateTrip /\ Received
    \/ \E i \in DOMAIN trips : AcceptOf(i) /\ Received
    \/ \E i \in DOMAIN trips : UpdateStatusOf(i) /\ Received
    \/ \E i \in DOMAIN trips : CancelOf(i) /\ Received
    \/ Respond /\ Served

SpecNotify == InitLive /\ [][NotifyNext]_vars

\* The trip with its safety records: the status handlers, the SOS handler
\* and the incident handler of the security router, one request at a time;
\* all requests fall within one clock reading, the fare is the lowest one.
InitSafety == Init /\ \A f \in Fares : trip.fare <= f

SafetyNext ==
    \/ \E r \in Reqs : AcceptTrip(r) /\ Quiet /\ Served
    \/ \E r \in Reqs : UpdateTripStatus(r) /\ Quiet /\ Served
    \/ \E r \in Reqs : CancelTrip(r) /\ Quiet /\ Served
    \/ \E r \in Reqs : SosTrip(r) /\ Quiet /\ Served
    \/ \E r \in Reqs : IncidentTrip(r) /\ Quiet /\ Served
    \/ \E r \in Reqs : LoadRequester(r) /\ Served
    \/ \E r \in Reqs : SaveRequester(r) /\ Served
    \/ \E r \in Reqs : SaveTrip(r) /\ Served
    \/ Respond /\ Served

SpecSafety == InitSafety /\ [][SafetyNext]_vars

\* ------------------------------------- the verification handlers, concurrent
\* One account and its verification requests; the trip plays no part.
InitVerify == Init /\ trip.kind = "ride" /\ \A f \in Fares : trip.fare <= f

VerifyNext ==
    \/ \E r \in Reqs : SendCall(r) /\ Received
    \/ \E r \in Reqs : VerifyCall(r) /\ Received
    \/ \E r \in Reqs : LoadAccount(r) /\ Served
    \/ \E r \in Reqs : SaveAccount(r) /\ Served
    \/ Elapse /\ Served
    \/ Respond /\ Served

SpecVerify == InitVerify /\ [][VerifyNext]_vars

\* ------------------------------- loyalty points: completions and redemptions
\* A ride of the lowest fare, its requester's points and one reward: the
\* update-status handler and the redeem handler, overlapping at their awaits.
InitLoyalty ==
    /\ \E points \in InitialPoints, rw \in Rewards : Opened(NoPast, points, rw)
    /\ trips = << >>
    /\ trip.kind = "ride"
    /\ \A f \in Fares : trip.fare <= f

LoyaltyNext ==
    \/ \E r \in Reqs : UpdateTripStatus(r) /\ Received
    \/ \E r \in Reqs : LoadRequester(r) /\ Served
    \/ \E r \in Reqs : SaveRequester(r) /\ Served
    \/ \E r \in Reqs : SaveTrip(r) /\ Served
    \/ \E r \in Reqs : RedeemCall(r) /\ Received
    \/ \E r \in Reqs : RedeemLoadUser(r) /\ Served
    \/ \E r \in Reqs : RedeemLoadReward(r) /\ Served
    \/ \E r \in Reqs : RedeemSaveReward(r) /\ Served
    \/ \E r \in Reqs : RedeemSaveUser(r) /\ Served
    \/ Respond /\ Served

SpecLoyalty == InitLoyalty /\ [][LoyaltyNext]_vars

\* ------------------------------------------------------------ auth router
\* The bearer tokens a client can present: every token issued so far, a
\* token that fails jwt.verify, and none.  Tokens are within their lifetime.
TokenArgs == {tokens[i] : i \in 1..Len(tokens)} \cup {Forged, NoToken}

\* the routes behind protect that are followed here
GuardedOps == {"me", "logout"}

Unauthorized(message) == [code |-> 401, message |-> message]

\* protect with a session check that passes every token
protectAnySession(token, current) ==
    IF token.sessionToken # NoSession THEN [code |-> 0, message |-> "next"]
    ELSE [code |-> 0, message |-> "migrate"]

\* protect, once jwt.verify has passed and the user is loaded: the session
\* check of a token that carries a session token, the migration otherwise
protect(token, current) ==
    IF token.sessionToken # NoSession
    THEN IF current \in {NoSession, Cleared} \/ current # token.sessionToken
         THEN Unauthorized("session expired")
         ELSE [code |-> 0, message |-> "next"]
    ELSE [code |-> 0, message |-> "migrate"]

FreeAuth(r) == areqs[r].pc = "idle"

\* a request to a guarded route arrives: the header and jwt.verify
AuthCall(r, op, token) ==
    /\ FreeAuth(r)
    /\ areqs' = [areqs EXCEPT ![r] =
          IF token = NoToken
          THEN [IdleAuth EXCEPT !.pc = "done", !.op = op, !.token = token, !.code = 401,
                                !.message = "no token"]
          ELSE IF token = Forged
          THEN [IdleAuth EXCEPT !.pc = "done", !.op = op, !.token = token, !.code = 401,
                                !.message = "token failed"]
          ELSE [IdleAuth EXCEPT !.pc = "protect", !.op = op, !.token = token]]
    /\ UNCHANGED <<trip, users, reqs, out, winners, now, calls, past, shop, account, live, sent,
                   currentSessionToken, tokens, minted>>

\* req.user = await User.findById(decoded.id), then the session check
ProtectLoad(r) ==
    /\ areqs[r].pc = "protect"
    /\ LET res == protect(areqs[r].token, currentSessionToken)
       IN areqs' = [areqs EXCEPT ![r] =
             IF res.code # 0
             THEN [@ EXCEPT !.pc = "done", !.seen = currentSessionToken, !.code = res.code,
                            !.message = res.message]
             ELSE [@ EXCEPT !.pc = IF res.message = "migrate" THEN "migrate" ELSE "handler",
                            !.seen = currentSessionToken]]
    /\ UNCHANGED <<trip, users, reqs, out, winners, now, calls, past, shop, account, live, sent,
                   currentSessionToken, tokens, minted>>

\* the migration of a token without session token: a new session token is
\* written to the user, await req.user.save(), next()
ProtectSave(r) ==
    /\ areqs[r].pc = "migrate"
    /\ minted < MaxSessions
    /\ minted' = minted + 1
    /\ currentSessionToken' = generateSessionToken(minted)
    /\ areqs' = [areqs EXCEPT ![r].pc = "handler"]
    /\ UNCHANGED <<trip, users, reqs, out, winners, now, calls, past, shop, account, live, sent,
                   tokens>>

\* GET /api/auth/me behind protect
Me(r) ==
    /\ areqs[r].pc = "handler"
    /\ areqs[r].op = "me"
    /\ areqs' = [areqs EXCEPT ![r].pc = "done", ![r].code = 200, ![r].message = "user"]
    /\ UNCHANGED <<trip, users, reqs, out, winners, now, calls, past, shop, account, live, sent,
                   currentSessionToken, tokens, minted>>

\* POST /api/auth/logout behind protect: await User.findById
LogoutLoad(r) ==
    /\ areqs[r].pc = "handler"
    /\ areqs[r].op = "logout"
    /\ areqs' = [areqs EXCEPT ![r].pc = "clear"]
    /\ UNCHANGED <<trip, users, reqs, out, winners, now, calls, past, shop, account, live, sent,
                   currentSessionToken, tokens, minted>>

\* user.currentSessionToken = null; await user.save(); res.json
LogoutSave(r) ==
    /\ areqs[r].pc = "clear"
    /\ currentSessionToken' = Cleared
    /\ areqs' = [areqs EXCEPT ![r].pc = "done", ![r].code = 200, ![r].message = "logged out"]
    /\ UNCHANGED <<trip, users, reqs, out, winners, now, calls, past, shop, account, live, sent,
                   tokens, minted>>

\* POST /api/auth/login: User.findOne and comparePassword
LoginCall(r, isMatch) ==
    /\ FreeAuth(r)
    /\ areqs' = [areqs EXCEPT ![r] =
          IF ~isMatch
          THEN [IdleAuth EXCEPT !.pc = "done", !.op = "login", !.code = 401,
                                !.message = "invalid credentials"]
          ELSE [IdleAuth EXCEPT !.pc = "login", !.op = "login"]]
    /\ UNCHANGED <<trip, users, reqs, out, winners, now, calls, past, shop, account, live, sent,
                   currentSessionToken, tokens, minted>>

\* user.currentSessionToken = generateSessionToken(); await user.save();
\* the token of the new session is answered
LoginSave(r) ==
    /\ areqs[r].pc = "login"
    /\ minted < MaxSessions
    /\ LET sessionToken == generateSessionToken(minted)
       IN /\ minted' = minted + 1
          /\ currentSessionToken' = sessionToken
          /\ tokens' = Append(tokens, generateToken(sessionToken))
          /\ areqs' = [areqs EXCEPT ![r].pc = "done", ![r].code = 200, ![r].message = "token",
                                    ![r].token = generateToken(sessionToken)]
    /\ UNCHANGED <<trip, users, reqs, out, winners, now, calls, past, shop, account, live, sent>>

\* the response has gone out
AuthRespond(r) ==
    /\ areqs[r].pc = "done"
    /\ areqs' = [areqs EXCEPT ![r] = IdleAuth]
    /\ UNCHANGED <<trip, users, reqs, out, winners, now, calls, past, shop, account, live, sent,
                   currentSessionToken, tokens, minted>>

InitSession == Init /\ trip.kind = "ride" /\ \A f \in Fares : trip.fare <= f

SessionNext ==
    \E r \in Reqs :
        \/ \E op \in GuardedOps, token \in TokenArgs : AuthCall(r, op, token)
        \/ ProtectLoad(r)
        \/ ProtectSave(r)
        \/ Me(r)
        \/ LogoutLoad(r)
        \/ LogoutSave(r)
        \/ \E isMatch \in BOOLEAN : LoginCall(r, isMatch)
        \/ LoginSave(r)
        \/ AuthRespond(r)

SpecSession == InitSession /\ [][SessionNext]_vars

TypeOK ==
    /\ trip.worker \in Users \cup {NoWorker}
    /\ winners \subseteq Users
    /\ now \in 1..MaxClock
    /\ calls \in 0..MaxCalls

\* ------------------------------------------------------------ properties
\* statuses from which the declared graph has no outgoing edge
Terminal(kind) == {SuccessStatus(kind), "cancelled"}

\* the declared lineage of a kind
Lineage(kind) ==
    IF kind = "delivery"
    THEN <<"pending", "accepted", "picked_up", "in_transit", "delivered">>
    ELSE <<"pending", "accepted", "driver_arrived", "in_progress", "completed">>

\* edges of the declared graph
Edges(kind) ==
    {<<Lineage(kind)[i], Lineage(kind)[i + 1]>> : i \in 1..4}
    \cup {<<Lineage(kind)[i], "cancelled">> : i \in 1..4}

\* this step answers a request
Answers == out = NoResponse /\ out' # NoResponse

\* this step puts the trip into terminal success for the first time
FirstCompletion ==
    /\ trip.status # SuccessStatus(trip.kind)
    /\ trip'.status = SuccessStatus(trip.kind)
    /\ ~IsSet(trip.completedAt)

\* C1: of the accept calls on one pending trip, made by distinct workers and
\* overlapping in time, exactly one is answered with success, and the trip
\* ends with that worker: never have two workers been told that they won.
C1_OneAcceptWins ==
    /\ Cardinality(winners) <= 1
    /\ winners # {} => trip.worker \in winners

\* C2: once the status is completed, delivered or cancelled, no call changes it.
C2_TerminalIsFinal ==
    [][trip.status \in Terminal(trip.kind) => trip'.status = trip.status]_vars

\* C3: every status change follows an edge of the declared graph; a request
\* that would skip a stage or move backwards leaves the status unchanged.
C3_StatusFollowsGraph ==
    [][trip'.status # trip.status => <<trip.status, trip'.status>> \in Edges(trip.kind)]_vars

\* C4: the worker field is written only by a successful accept, and only
\* while the trip is pending and has no worker; once set it never changes.
C4_WorkerWrittenOnce ==
    [][trip'.worker # trip.worker =>
         /\ trip.worker = NoWorker
         /\ trip.status = "pending"
         /\ out'.op = "accept" /\ out'.res.code = 200]_vars

\* C5: an accept call by a worker other than the assigned one, or on a trip
\* that is not pending, is answered with a conflict that carries the trip's
\* current status and current worker id, and leaves the trip unchanged.
C5_ConflictCarriesState ==
    [][(/\ Answers
        /\ out'.op = "accept"
        /\ out'.actor \in Workers
        /\ trip.worker # out'.actor
        /\ (trip.worker # NoWorker \/ trip.status # "pending"))
       => (/\ out'.res.code = 400
           /\ out'.res.status = trip.status
           /\ (trip.worker # NoWorker => out'.res.worker = trip.worker)
           /\ trip' = trip)]_vars

\* C6: an accept call by the worker already assigned to the trip is answered
\* with success and changes nothing, for rides and deliveries alike.
C6_AcceptIsIdempotent ==
    [][(Answers /\ out'.op = "accept" /\ trip.worker = out'.actor)
       => (out'.res.code = 200 /\ trip' = trip)]_vars

\* C7: status updates on one trip act as one atomic conditional update: when
\* two calls setting the same terminal-success status overlap, the completion
\* timestamp is set once and the loyalty points are awarded once.
C7_CompletionIsAtomic ==
    /\ [](users[trip.requester].points <= Points(trip))
    /\ [][IsSet(trip.completedAt) => trip'.completedAt = trip.completedAt]_vars

\* C8: of two update-status calls in sequence with the same terminal status,
\* the second changes neither the points nor the timestamp, and after it the
\* trip's points have been awarded exactly once.
C8_TerminalUpdateIsIdempotent ==
    [][(/\ Answers
        /\ out'.op = "updateStatus"
        /\ out'.res.code = 200
        /\ out'.arg = SuccessStatus(trip.kind)
        /\ trip.status = SuccessStatus(trip.kind))
       => (/\ IsSet(trip.completedAt)
           /\ trip'.completedAt = trip.completedAt
           /\ users' = users
           /\ users[trip.requester].points = Points(trip))]_vars

\* C9: when a trip first enters completed / delivered, whoever of the
\* assigned worker, the requester and an admin makes the transition, the
\* requester's points have grown by floor(fare / 10) * 10.
C9_CompletionAwardsPoints ==
    [][FirstCompletion => users'[trip.requester].points = (trip.fare \div 1000) * 10]_vars

\* C10: when a trip first enters completed / delivered, the requester's
\* cumulative spend has grown by the fare and the tier is the one the spend
\* thresholds give for the cumulative spend.
C10_CompletionUpdatesSpendAndTier ==
    [][FirstCompletion =>
         /\ users'[trip.requester].totalSpent = trip.fare
         /\ users'[trip.requester].tier = calculateTier(users'[trip.requester].totalSpent)]_vars

\* a permitted caller's request was answered by the "cannot cancel" rejection
CancelRefused ==
    /\ out.op = "cancel"
    /\ out.res.code = 400
    /\ out.res.msg = "cannot cancel"

\* C11: cancelTrip on a trip whose status is completed (ride) or delivered
\* (delivery) is answered with the "cannot cancel" error when the caller
\* is a participant or an admin, and leaves the status, cancelledAt and the
\* cancellation reason as they were.
C11_CompletedCannotBeCancelled ==
    [][(/\ Answers
        /\ out'.op = "cancel"
        /\ trip.status = SuccessStatus(trip.kind))
       => (/\ Permitted(trip, out'.actor, users[out'.actor])
              => (out'.res.code = 400 /\ out'.res.msg = "cannot cancel")
           /\ trip'.status = trip.status
           /\ trip'.cancelledAt = trip.cancelledAt
           /\ trip'.cancellationReason = trip.cancellationReason)]_vars

\* a cancel call on a completed / delivered trip has been refused with the
\* "cannot cancel" error
C11_Witness ==
    /\ CancelRefused
    /\ trip.status = SuccessStatus(trip.kind)
    /\ Permitted(trip, out.actor, users[out.actor])

\* C12: each stage timestamp (startedAt / pickedUpAt, completedAt /
\* deliveredAt, cancelledAt) and the cancellation reason are written at most
\* once: once one of them is set, no later update-status or cancel call,
\* a cancel call on an already cancelled trip included, changes it.
C12_StampsWrittenOnce ==
    [][/\ IsSet(trip.startedAt) => trip'.startedAt = trip.startedAt
       /\ IsSet(trip.completedAt) => trip'.completedAt = trip.completedAt
       /\ IsSet(trip.cancelledAt) => trip'.cancelledAt = trip.cancelledAt
       /\ trip.cancellationReason # Absent
             => trip'.cancellationReason = trip.cancellationReason]_vars

\* C13: in every reachable state a ride in_progress has startedAt set, a
\* delivery in_transit has its start timestamp (pickedUpAt) set, a completed
\* or delivered trip has its completion timestamp set and a cancelled trip
\* has cancelledAt set.
C13_StatusImpliesStamp ==
    /\ (trip.kind = "ride" /\ trip.status = "in_progress") => IsSet(trip.startedAt)
    /\ (trip.kind = "delivery" /\ trip.status = "in_transit") => IsSet(trip.startedAt)
    /\ trip.status = SuccessStatus(trip.kind) => IsSet(trip.completedAt)
    /\ trip.status = "cancelled" => IsSet(trip.cancelledAt)

\* Math.round(average * 10) / 10
Round1(q) == Quotient((20 * q[1] + q[2]) \div (2 * q[2]), 10)

\* the rating utility: mean of the ratings rounded to one decimal, 0 for none
calculateAverageRating(ratings) ==
    IF Len(ratings) = 0 THEN Quotient(0, 1)
    ELSE Round1(Quotient(SumOf(ratings), Len(ratings)))

\* this step receives a rate call of user a while no request is in flight
ReceivesRate(a) ==
    /\ Quiet
    /\ out = NoResponse
    /\ \/ out'.op = "rate" /\ out'.actor = a
       \/ \E r \in Reqs : reqs'[r].op = "rate" /\ reqs'[r].actor = a

\* C14: rateTrip succeeds at most once per trip: a rate call by the requester
\* on a trip that already carries a rating is rejected (as already rated while
\* the trip is completed / delivered), the stored rating keeps its first
\* value and no worker's average changes.
C14_RatedOnce ==
    /\ [][(ReceivesRate(trip.requester) /\ trip.stars # 0)
           => (/\ Answers
               /\ out'.res.code = 400
               /\ trip.status = SuccessStatus(trip.kind)
                     => out'.res.msg \in {"already rated", "invalid stars"}
               /\ trip' = trip
               /\ users' = users)]_vars
    /\ [][trip.stars # 0 => trip'.stars = trip.stars]_vars

\* a second rating of a completed, rated trip has been refused
C14_Witness ==
    /\ out.op = "rate"
    /\ out.res.code = 400
    /\ out.res.msg = "already rated"
    /\ trip.stars # 0
    /\ trip.worker # NoWorker
    /\ users[trip.worker].averageRating = AverageOf(RatedStars(trip.worker, trip), <<0, 1>>)

\* C15: after each successful rateTrip the worker's stored average equals
\* the arithmetic mean, rounded to one decimal, of the stars of all of that
\* worker's completed / delivered trips that carry a rating.
C15_AverageIsRoundedMean ==
    [][(/\ Answers
        /\ out'.op = "rate"
        /\ out'.res.code = 200
        /\ trip.worker # NoWorker)
       => users'[trip.worker].averageRating
             = calculateAverageRating(RatedStars(trip.worker, trip'))]_vars

\* a rating or a worker's average is written in this step
WritesRating ==
    \/ trip'.stars # trip.stars
    \/ \E w \in Workers : users'[w].averageRating # users[w].averageRating

\* C16: rateTrip is accepted only from the trip's requester and only while
\* the trip is completed / delivered: a call by any other user, or on a trip
\* in any other status, is rejected and writes neither a rating nor a
\* worker's average; a rating or an average is written only for a call of
\* the requester on a completed / delivered trip.
C16_RateNeedsRequesterAndSuccess ==
    /\ [][\A a \in Users :
             (/\ ReceivesRate(a)
              /\ (a # trip.requester \/ trip.status # SuccessStatus(trip.kind)))
             => (/\ Answers
                 /\ out'.res.code \in {400, 403}
                 /\ trip' = trip
                 /\ users' = users)]_vars
    /\ [][WritesRating
           => (/\ trip.status = SuccessStatus(trip.kind)
               /\ \E r \in Reqs : /\ reqs[r].op = "rate"
                                   /\ reqs[r].actor = trip.requester)]_vars

\* a rate call of somebody else than the requester, or on a trip that is not
\* completed, has been refused
C16_Witness ==
    /\ out.op = "rate"
    /\ out.res.code \in {400, 403}
    /\ out.res.msg \in {"only the requester", "not completed"}
    /\ trip.stars = 0

\* active trips of worker w: assigned to w and not in a terminal status
ActiveOf(w) ==
    {i \in DOMAIN trips : trips[i].worker = w /\ trips[i].status \notin Terminal(trips[i].kind)}

\* C17: no worker is the assigned worker of two trips that are both
\* non-terminal; an accept by a worker who has an active trip assigns no second
C17_OneActiveTripPerWorker == \A w \in Workers : Cardinality(ActiveOf(w)) <= 1

\* the conditions the dispatch is specified to test, the distance at full precision
Qualifies(w, d) ==
    /\ IF d.kind = "delivery" THEN users[w].isCourier ELSE users[w].isDriver
    /\ users[w].isAvailable
    /\ users[w].isVerified
    /\ users[w].currentLocation # NoPlace
    /\ Haversine(d.origin, users[w].currentLocation) <= radius * 1000

Creates == Len(trips') = Len(trips) + 1

Missed(t) ==
    {i \in 1..t.seen :
        /\ trips[i].status = "pending"
        /\ trips[i].kind = (IF users[t.room].isCourier THEN "delivery" ELSE "ride")
        /\ Haversine(users[t.room].currentLocation, trips[i].origin) <= radius * 1000}

Resyncs == timers # << >> /\ timers' = Tail(timers)

\* C19: when the resync delay of a first join has elapsed, the worker being
\* available with a location, its connection has received exactly one
\* new-request for each still-pending trip created before the join and
\* within the radius
C19_ResyncDeliversPending ==
    [][(/\ Resyncs
        /\ ~Head(timers).again
        /\ Head(timers).sock \in rooms[Head(timers).room]
        /\ users[Head(timers).room].isAvailable
        /\ users[Head(timers).room].currentLocation # NoPlace)
       => inbox'[Head(timers).sock] =
             inbox[Head(timers).sock] + Cardinality(Missed(Head(timers)))]_vars

Joins == Len(timers') = Len(timers) + 1

Answered(op) == out = NoResponse /\ out'.op = op

\* accepted and status-update on the trip's room, unavailable at every open
\* connection
AcceptEvents ==
    {<<"accepted", "trip">>, <<"status-update", "trip">>}
       \cup {<<"unavailable", c>> : c \in Connected}

\* C21 as stated: every accept answered with success emits accepted and
\* status-update on the trip's room and an unavailable event that reaches
\* every connected worker; a rejected accept emits nothing
C21_SuccessfulAcceptEmits ==
    [][Answered("accept") =>
         /\ out'.res.code = 200 => AcceptEvents \subseteq sent'
         /\ out'.res.code \in {400, 403, 404} => sent' = {}]_vars

\* C21: every accept that assigns the worker emits accepted and
\* status-update on the trip's room and an unavailable event that reaches
\* every connected worker, also those never sent the request; a rejected
\* accept, and the repeated accept of the assigned worker, emit nothing
C21_AssigningAcceptEmits ==
    [][Answered("accept") =>
         /\ (out'.res.code = 200 /\ trips' # trips) => AcceptEvents \subseteq sent'
         /\ (out'.res.code \in {400, 403, 404} \/ trips' = trips) => sent' = {}]_vars

\* an accept has assigned the worker and its unavailable event went to a
\* connection that is in no room and has received no request
C21_Witness ==
    /\ out.op = "accept"
    /\ out.res.code = 200
    /\ <<"accepted", "trip">> \in sent
    /\ \E c \in Connected :
          /\ <<"unavailable", c>> \in sent
          /\ inbox[c] = 0
          /\ \A w \in Workers : c \notin rooms[w]

\* a step of create, accept, update-status or cancel in which an emit or the
\* worker lookup threw
NotifyFailed ==
    /\ out = NoResponse
    /\ out'.op \in {"create", "accept", "updateStatus", "cancel"}
    /\ (out'.res = ServerError \/ <<"error", "log">> \in sent')

\* the mutation of the request answered in this step is in the collection
Committed ==
    CASE out'.op = "create" ->
            Len(trips') = Len(trips) + 1 /\ trips'[Len(trips')].status = "pending"
      [] out'.op = "accept" ->
            \E i \in DOMAIN trips' :
               trips'[i].worker = out'.actor /\ trips'[i].status = "accepted"
      [] out'.op = "updateStatus" ->
            \E i \in DOMAIN trips' : trips'[i].status = out'.arg
      [] out'.op = "cancel" ->
            \E i \in DOMAIN trips' :
               trips'[i].status = "cancelled" /\ trips'[i].cancellationReason # Absent

\* C22: a throw during the notification of createTrip, acceptTrip,
\* updateTripStatus or cancelTrip leaves the saved mutation in place and the
\* request is still answered with success
C22_NotifyFailureNonFatal ==
    [][NotifyFailed => (Committed /\ out'.res.code \in {200, 201})]_vars

\* a request of kind op by user a is received in this step
Receives(op, a) ==
    /\ Quiet
    /\ out = NoResponse
    /\ \/ out'.op = op /\ out'.actor = a
       \/ \E r \in Reqs : reqs'[r].op = op /\ reqs'[r].actor = a

\* user a is neither the trip's requester, nor its assigned worker, nor an admin
Stranger(a) == a # trip.requester /\ a # trip.worker /\ users[a].role # "admin"

\* C23: an update-status or cancel call by a user who is neither the trip's
\* requester, nor its assigned worker, nor an admin is rejected, with the
\* permission error when its body is valid, and leaves the trip unchanged
C23_StrangerIsRefused ==
    [][\A a \in Users :
          ((Receives("updateStatus", a) \/ Receives("cancel", a)) /\ Stranger(a))
          => (/\ Answers
              /\ out'.res.code \in {400, 403}
              /\ (out'.op = "cancel" \/ out'.arg \in ValidStatusArgs(out'.route))
                    => (out'.res.code = 403 /\ out'.res.msg = "access denied")
              /\ trip' = trip
              /\ users' = users)]_vars

\* a driver who is not the trip's driver has been refused an update-status
\* or cancel call on a trip that has a driver
C23_Witness ==
    /\ out.op \in {"updateStatus", "cancel"}
    /\ out.res.code = 403
    /\ out.actor \in Workers
    /\ trip.worker \in Workers \ {out.actor}

\* the SOS sub-record of the trip
SosRecord(d) == <<d.sosActivated, d.sosActivatedAt, d.sosLocation, d.sosContactsNotified>>

\* C24: an SOS activation on a completed / delivered or cancelled trip is
\* rejected and leaves the trip's SOS sub-record unchanged
C24_SosOnlyWhileActive ==
    [][\A a \in Users :
          (Receives("sos", a) /\ trip.status \in Terminal(trip.kind))
          => (/\ Answers
              /\ out'.res.code \in {400, 403, 404}
              /\ SosRecord(trip') = SosRecord(trip))]_vars
    /\ [][SosRecord(trip') # SosRecord(trip) => trip.status \notin Terminal(trip.kind)]_vars

\* the notify-list the design describes for trip d at time t
RequesterContacts(d, t) ==
    {<<"Emergency Services", EmergencyNumber(d.requester), t>>,
     <<"Police", PoliceNumber(d.requester), t>>}
       \cup {<<tc[1], tc[2], t>> : tc \in {x \in TrustedContacts(d.requester) : x[3]}}

\* C25: after an SOS activation the recorded notify-list is made of the
\* requester's emergency numbers and the requester's trusted contacts that
\* can track trips, each with the time of notification, whoever activated
C25_NotifyListIsRequesters ==
    [][(Answers /\ out'.op = "sos" /\ out'.res.code = 200)
       => trip'.sosContactsNotified = RequesterContacts(trip', trip'.sosActivatedAt)]_vars

\* C26: an SOS call changes neither the trip's status nor its assigned
\* worker, whatever the trip's state and whoever calls
C26_SosKeepsStatusAndWorker ==
    [][(out'.op = "sos" \/ \E r \in Reqs : reqs[r].op = "sos" \/ reqs'[r].op = "sos")
       => (trip'.status = trip.status /\ trip'.worker = trip.worker)]_vars

\* the assigned driver has activated SOS on a ride that is under way
C26_Witness ==
    /\ out.op = "sos"
    /\ out.res.code = 200
    /\ out.actor = trip.worker
    /\ trip.sosActivated = "true"
    /\ trip.status = "in_progress"

\* C27: an incident report by a user who is neither the trip's requester nor
\* its assigned worker is rejected with the permission error and nothing is
\* recorded on the trip or sent to the admin room
C27_IncidentNeedsParticipant ==
    [][\A a \in Users :
          (Receives("incident", a) /\ a # trip.requester /\ a # trip.worker)
          => (/\ Answers
              /\ out'.res.code = 403
              /\ trip' = trip
              /\ sent' = {})]_vars
    /\ [][(Answers /\ out'.op = "incident"
            /\ out'.actor # trip.requester /\ out'.actor # trip.worker)
           => (trip'.incidentReports = trip.incidentReports
               /\ <<"new-incident", "admin">> \notin sent')]_vars

\* a ride is created through the current rides router, its pickup has no
\* zero coordinate, and the dispatch runs to its end
DispatchesRide ==
    /\ Creates
    /\ out'.route = "rides"
    /\ out'.res.code = 201
    /\ <<"error", "log">> \notin sent'
    /\ Latitude(trips'[Len(trips')].origin) # 0
    /\ Longitude(trips'[Len(trips')].origin) # 0

FormulaFare(d) ==
    IF d.kind = "delivery"
    THEN 1000 * deliveryBaseFares(d.type)
           + Haversine(d.origin, d.destination) * deliveryRatePerKm(d.type)
    ELSE 1000 * baseFares(d.type) + Haversine(d.origin, d.destination) * ratePerKm(d.type)

\* C29: createTrip for a valid draft, a ride or a delivery, stores the trip,
\* and the fare stored on it is baseFare(kind) + distance * ratePerKm(kind) to
\* the cent, the distance being the haversine distance from the origin to the
\* destination.
C29_CreateStoresFormulaFare ==
    [][Answered("create") =>
         /\ Len(trips') = Len(trips) + 1
         /\ 10 * trips'[Len(trips')].fare - FormulaFare(trips'[Len(trips')]) \in -5..5]_vars

\* this step judges the code verify request r presents: the account has been
\* read, and the request is answered or goes on to set the flag
Judged(r) == vreqs[r].pc = "load" /\ vreqs[r].op = "verify" /\ vreqs'[r].pc # "load"

\* the last code sent on channel ch was sent more than ten minutes ago
Late(ch) == issued[ch].code # Absent /\ now > issued[ch].at + ExpiryMinutes

Flags(v) == <<v.email.verified, v.phone.verified>>

\* a flag is set only by the write of a verify request for its channel
SetByVerify ==
    \A ch \in Channels :
       (~verification[ch].verified /\ verification'[ch].verified) =>
          \E r \in Reqs : /\ vreqs[r].pc = "save"
                          /\ vreqs[r].op = "verify"
                          /\ vreqs[r].channel = ch
                          /\ vreqs'[r].pc = "idle"

\* a verify request goes on to set the flag only when the code it presents is
\* the one last sent on its channel, at most ten minutes after it was sent
OnlyLatestUnexpired ==
    \A r \in Reqs :
       (Judged(r) /\ vreqs'[r].pc = "save") =>
          /\ vreqs[r].code = issued[vreqs[r].channel].code
          /\ now <= issued[vreqs[r].channel].at + ExpiryMinutes

\* C30 as stated: a verification code presented more than 10 minutes after it
\* was issued is rejected and leaves emailVerified / phoneVerified as they
\* were; only the most recently issued, unexpired code sets the flag.
C30_LateCodeIsRejected ==
    /\ [][\A r \in Reqs :
            (Judged(r) /\ Late(vreqs[r].channel)) =>
               /\ out'.res.code = 400
               /\ vreqs'[r].pc = "idle"
               /\ Flags(verification') = Flags(verification)]_vars
    /\ [][SetByVerify]_vars
    /\ [][OnlyLatestUnexpired]_vars

\* C30: a verification code presented more than 10 minutes after it was
\* issued never sets a flag: it is rejected when the channel is not verified
\* yet and answered "already verified" when it is, and emailVerified /
\* phoneVerified stay as they were; only the most recently issued, unexpired
\* code sets the flag.
C30_LateCodeSetsNoFlag ==
    /\ [][\A r \in Reqs :
            (Judged(r) /\ Late(vreqs[r].channel)) =>
               /\ out'.res.code = IF verification[vreqs[r].channel].verified THEN 200 ELSE 400
               /\ out'.res.code = 200 => out'.res.msg = "already verified"
               /\ vreqs'[r].pc = "idle"
               /\ Flags(verification') = Flags(verification)]_vars
    /\ [][SetByVerify]_vars
    /\ [][OnlyLatestUnexpired]_vars

\* the code last sent by email or SMS has just been refused as expired, the
\* channel still unverified
C30_Witness ==
    /\ out.op = "verify"
    /\ out.res.code = 400
    /\ out.res.msg = "expired"
    /\ out.arg = issued[out.route].code
    /\ now > issued[out.route].at + ExpiryMinutes
    /\ ~verification[out.route].verified

\* statuses of a trip a worker is at work on or has finished
WorkedStatuses(kind) ==
    {Lineage(kind)[k] : k \in 2..Len(Lineage(kind))}

\* C31: in every reachable state, a trip whose status is accepted,
\* driver_arrived / picked_up, in_progress / in_transit or completed /
\* delivered has an assigned worker; no sequence of update-status calls by the
\* requester or an admin puts a worker-less trip into one of these statuses.
C31_WorkedTripHasWorker ==
    trip.status \in WorkedStatuses(trip.kind) => trip.worker # NoWorker

\* the statuses of a kind other than pending
Settable(kind) == WorkedStatuses(kind) \cup {"cancelled"}

\* C32: once a trip has left pending, no operation returns it to pending:
\* update-status answers the value pending, and any value outside the kind's
\* status set, with a validation error, and nothing is written.
C32_NeverBackToPending ==
    /\ [][trip.status # "pending" => trip'.status # "pending"]_vars
    /\ [][\A r \in Reqs :
            (reqs[r].pc = "idle" /\ reqs'[r].pc # "idle" /\ reqs'[r].op = "updateStatus")
               => reqs'[r].arg \in Settable(trip.kind)]_vars
    /\ [][(Answers /\ out'.op = "updateStatus" /\ out'.arg \notin Settable(trip.kind)) =>
            /\ out'.res.code = 400
            /\ out'.res.msg = "invalid status"
            /\ trip' = trip
            /\ users' = users]_vars

\* a trip that has left pending, and a request to set it to pending or to a
\* status of the other kind has just been refused
C32_Witness ==
    /\ out.op = "updateStatus"
    /\ out.arg \in {"pending", "in_transit"}
    /\ out.res.code = 400
    /\ trip.kind = "ride"
    /\ trip.status \in {"in_progress", "completed"}

\* this step is the write of the points by update-status request r / by
\* redeem request r
AwardWrite(r) == reqs[r].pc = "saveUser" /\ reqs'[r].pc = "save"
RedeemWrite(r) == rreqs[r].pc = "saveUser" /\ rreqs'[r].pc = "idle"

\* C33: under any interleaving the requester's points are the sum of the
\* awards of the completions minus the points of the successful redemptions:
\* every write of an award adds the award to the balance as it stands, and
\* every write of a redemption takes the reward's cost off the balance as it
\* stands, so that no update is lost when completions or a completion and a
\* redemption overlap.
C33_NoPointsUpdateLost ==
    [][\A r \in Reqs :
          /\ AwardWrite(r) =>
                users'["rider"].points = users["rider"].points + reqs[r].award
          /\ RedeemWrite(r) =>
                users'["rider"].points = users["rider"].points - reward.pointsCost]_vars

\* C38: a redemption never leaves the points balance below zero, and the
\* successful redemptions of a reward never exceed its maxUses, overlapping
\* redemptions included.
C38_RedemptionsWithinLimits ==
    /\ users["rider"].points >= 0
    /\ reward.maxUses # 0 => users["rider"].rewardsRedeemed <= reward.maxUses

\* the tokens of the logins before the latest one
EarlierLogin(token) == \E i \in 2..(Len(tokens) - 1) : tokens[i] = token

\* protect ends for request r in this step: next() or 401
Judges(r) ==
    /\ areqs[r].pc \in {"protect", "migrate"}
    /\ areqs'[r].pc \in {"handler", "done"}

Passes(r) == Judges(r) /\ areqs'[r].pc = "handler"

Refuses(r) == Judges(r) /\ areqs'[r].pc = "done" /\ areqs'[r].code = 401

ReadUser(r) == IF areqs[r].pc = "protect" THEN currentSessionToken ELSE areqs[r].seen

\* C35: while the user is logged out (the session token is the null logout
\* wrote, from the load of the user to the end of protect), protect rejects
\* every token, the token returned by register included.
C35_LoggedOutRejectsEveryToken ==
    [][\A r \in Reqs :
          (Judges(r) /\ ReadUser(r) = Cleared /\ currentSessionToken = Cleared)
             => Refuses(r)]_vars

\* the session tokens carried by the issued tokens
IssuedSessions == {tokens[i].sessionToken : i \in 1..Len(tokens)}

\* the current session was written by a migration: no issued token carries it
Migrated ==
    /\ currentSessionToken \notin {NoSession, Cleared}
    /\ currentSessionToken \notin IssuedSessions

Due(t) ==
    IF users[t.room].isAvailable /\ users[t.room].currentLocation # NoPlace
    THEN {i \in DOMAIN trips :
            /\ trips[i].status = "pending"
            /\ trips[i].kind = (IF users[t.room].isCourier THEN "delivery" ELSE "ride")
            /\ Haversine(users[t.room].currentLocation, trips[i].origin) <= radius * 1000}
    ELSE {}

====
